---- MODULE Spec2Model ----
(***************************************************************************)
(* A model of src/src/inquir.ts (class Inquir): the question registry      *)
(* returned by prompts(namespace), built on the one shared Map             *)
(* this._prompts, and the prompt(namespace) engine that drives a registry  *)
(* through the readline interface.                                         *)
(*                                                                         *)
(* JavaScript values are records [t, n, s]: t is the type tag, n the       *)
(* number (or the object reference), s the characters of a string.         *)
(* Strings are sequences of one-character strings, so that template        *)
(* literals, RegExp prefix tests and the default Array sort are computed   *)
(* character by character as the runtime computes them.                    *)
(***************************************************************************)
EXTENDS Integers, Sequences, FiniteSets, TLC

VARIABLES heap, coll, handles, last, calls, hist, inq, sess

vars == <<heap, coll, handles, last, calls, hist, inq, sess>>

(***************************************************************************)
(* Bounds of the model.                                                    *)
(***************************************************************************)
MaxObj == 2
MaxHandles == 2
MaxCtr == 2
MaxCalls == 3
MaxSessions == 1
MaxSetup == 1
\* The greatest id of the stores that lastId() is applied to.
MaxId == 11
\* The calls of toggleExceptions and the uncaught exceptions of one run.
MaxToggles == 5
MaxEvents == 4
\* The calls of prompt and of listen in a run with listen mode.
MaxPrompts == 2
MaxListens == 2
\* The candidates a completion source holds or returns.
MaxComps == 3
\* The calls of mask with a prompt and the characters typed into one.
MaxMasks == 2
MaxChars == 3
\* The nested calls the stack of the engine holds, and the invocations of
\* one normalized handler.
MaxStack == 3
MaxInvokes == 2

Obj == 1..MaxObj
Handle == 1..MaxHandles

(***************************************************************************)
(* JavaScript values.                                                      *)
(***************************************************************************)
Undef == [t |-> "undefined", n |-> 0, s |-> <<>>]
Null == [t |-> "null", n |-> 0, s |-> <<>>]
NaN == [t |-> "NaN", n |-> 0, s |-> <<>>]
Num(k) == [t |-> "number", n |-> k, s |-> <<>>]
Str(q) == [t |-> "string", n |-> 0, s |-> q]
ObjRef(o) == [t |-> "object", n |-> o, s |-> <<>>]

\* The namespaces and question names the callers use.
Namespaces == {<<"a">>, <<"a", "b">>, <<"A">>}
Names == {<<"x">>, <<"y">>}

DigitChar == <<"0", "1", "2", "3", "4", "5", "6", "7", "8", "9">>

RECURSIVE Digits(_)
Digits(k) == IF k < 10 THEN <<DigitChar[k + 1]>>
             ELSE Digits(k \div 10) \o <<DigitChar[(k % 10) + 1]>>

\* String(v), as a template literal or Array.prototype.sort converts v.
JsString(v) ==
  CASE v.t = "string" -> v.s
    [] v.t = "number" -> IF v.n < 0 THEN <<"-">> \o Digits(0 - v.n) ELSE Digits(v.n)
    [] v.t = "NaN" -> <<"N", "a", "N">>
    [] v.t = "null" -> <<"n", "u", "l", "l">>
    [] v.t = "undefined" -> <<"u", "n", "d", "e", "f", "i", "n", "e", "d">>
    [] v.t = "object" -> <<"[", "o", "b", "j", "e", "c", "t", " ", "O", "b", "j", "e", "c", "t", "]">>

\* !v
Falsy(v) ==
  \/ v.t \in {"undefined", "null", "NaN"}
  \/ v.t = "string" /\ v.s = <<>>
  \/ v.t = "number" /\ v.n = 0

\* a === b
StrictEq(a, b) == a.t # "NaN" /\ a = b

\* v + 1, as `ctr += 1` computes it.
PlusOne(v) ==
  CASE v.t = "number" -> Num(v.n + 1)
    [] v.t = "null" -> Num(1)
    [] OTHER -> NaN

\* UTF-16 code unit of the characters that ids and keys are made of.
Code(c) ==
  CASE c = "-" -> 45
    [] c \in {DigitChar[i] : i \in 1..10} -> 47 + (CHOOSE i \in 1..10 : DigitChar[i] = c)
    [] c = "N" -> 78
    [] c = "a" -> 97
    [] OTHER -> 0

\* a < b in the order of the default Array.prototype.sort (by code unit).
RECURSIVE StrLess(_, _)
StrLess(a, b) ==
  IF b = <<>> THEN FALSE
  ELSE IF a = <<>> THEN TRUE
  ELSE IF Code(Head(a)) # Code(Head(b)) THEN Code(Head(a)) < Code(Head(b))
  ELSE StrLess(Tail(a), Tail(b))

\* c.toLowerCase() of one character, as the RegExp flag 'i' folds it.
Lower(c) ==
  CASE c = "A" -> "a"
    [] c = "B" -> "b"
    [] c = "C" -> "c"
    [] c = "E" -> "e"
    [] c = "L" -> "l"
    [] c = "R" -> "r"
    [] c = "S" -> "s"
    [] c = "Y" -> "y"
    [] OTHER -> c

\* s.toLowerCase()
toLowerCase(s) == [i \in 1..Len(s) |-> Lower(s[i])]

\* A slip: only the leading blanks are stripped.
RECURSIVE trimLeft(_)
trimLeft(s) == IF s # <<>> /\ Head(s) = " " THEN trimLeft(Tail(s)) ELSE s

\* s.trim()
RECURSIVE trim(_)
trim(s) ==
  IF s # <<>> /\ Head(s) = " " THEN trim(Tail(s))
  ELSE IF s # <<>> /\ s[Len(s)] = " " THEN trim(SubSeq(s, 1, Len(s) - 1))
  ELSE s

(***************************************************************************)
(* The shared Map this._prompts: a sequence of entries in insertion order. *)
(***************************************************************************)
MapHas(m, key) == \E i \in 1..Len(m) : m[i].k = key

MapGet(m, key) ==
  IF MapHas(m, key)
  THEN ObjRef(m[CHOOSE i \in 1..Len(m) : m[i].k = key].v)
  ELSE Undef

\* Map.prototype.set keeps the position of a key that is already present.
MapSet(m, key, o) ==
  IF MapHas(m, key)
  THEN [i \in 1..Len(m) |-> IF m[i].k = key THEN [k |-> key, v |-> o] ELSE m[i]]
  ELSE Append(m, [k |-> key, v |-> o])

MapDelete(m, key) == SelectSeq(m, LAMBDA e : e.k # key)

(***************************************************************************)
(* prompts(namespace): the closures of one registry handle.                *)
(***************************************************************************)
\* A slip: the key leaves the namespace out.
toNamespaceFlat(namespace, key) == <<":">> \o JsString(key)

toNamespace(namespace, key) == namespace \o <<":">> \o JsString(key)

\* (new RegExp('^' + namespace, 'i')).test(k)
NamespaceTest(namespace, k) ==
  /\ Len(k) >= Len(namespace)
  /\ \A i \in 1..Len(namespace) : Lower(k[i]) = Lower(namespace[i])

\* getAll over a given Map: the stored objects whose key passes the test.
getAllOf(m, namespace) ==
  LET hit == SelectSeq(m, LAMBDA e : NamespaceTest(namespace, e.k))
  IN [i \in 1..Len(hit) |-> hit[i].v]

getAll(namespace) == getAllOf(coll, namespace)

\* get(name) over a given Map.
getOf(m, namespace, name) == MapGet(m, toNamespace(namespace, name))

get(namespace, name) == getOf(coll, namespace, name)

exists(namespace, name) == MapHas(coll, toNamespace(namespace, name))

\* getById over a given Map and heap: first match of p.id === id, or null.
getByIdOf(m, hp, namespace, id) ==
  LET all == getAllOf(m, namespace)
      hit == SelectSeq(all, LAMBDA o : StrictEq(hp[o].id, id))
  IN IF hit = <<>> THEN Null ELSE ObjRef(hit[1])

getById(namespace, id) == getByIdOf(coll, heap, namespace, id)

\* ids.sort().pop(): the greatest id in the order of the default sort.
SortPop(ids) ==
  IF ids = <<>> THEN Undef
  ELSE LET i == CHOOSE i \in 1..Len(ids) :
                  \A j \in 1..Len(ids) :
                    \/ StrLess(JsString(ids[j]), JsString(ids[i]))
                    \/ JsString(ids[j]) = JsString(ids[i])
       IN ids[i]

\* toDefault(val, def) of chek; nanIsValue is what its isValue answers
\* for NaN, which differs between versions of chek: both are admitted.
toDefault(val, def, nanIsValue) ==
  IF \/ val.t \in {"undefined", "null"}
     \/ val.t = "NaN" /\ ~nanIsValue
  THEN def
  ELSE val

lastIdOf(m, hp, namespace, nanIsValue) ==
  LET all == getAllOf(m, namespace)
      ids == [i \in 1..Len(all) |-> hp[all[i]].id]
  IN toDefault(SortPop(ids), Null, nanIsValue)

lastId(namespace, nanIsValue) == lastIdOf(coll, heap, namespace, nanIsValue)

\* ctr = toDefault(methods.lastId(), -1)
CtrSeed(m, hp, namespace, nanIsValue) ==
  toDefault(lastIdOf(m, hp, namespace, nanIsValue), Num(-1), nanIsValue)

(***************************************************************************)
(* The steps of add and remove as functions of the state they touch:       *)
(* st = [heap, coll, ctr, threw, logs, id, nadds, hist].  threw is set     *)
(* when the call ends in a TypeError; logs collects the levels it logged;  *)
(* id is the id the last completed add assigned; nadds counts completed    *)
(* adds.  Two records of what callers did take no part in the program:     *)
(* heap[o].nss, the namespaces o was added under, and hist[namespace], the *)
(* definitions added under the namespace in order, with clean unset once a *)
(* question was removed or overwritten or a definition added twice; ids    *)
(* are the ids the adds under the namespace assigned, in order, and epoch  *)
(* is how many of them were assigned before the namespace's last destroy.  *)
(***************************************************************************)
InSeq(q, o) == \E i \in 1..Len(q) : q[i] = o

\* A slip: the counter is advanced before the name is tested.
addStepCountsFirst(st, namespace, name, prompt) ==
  LET p == IF name.t = "object" THEN name ELSE prompt
      nextId == PlusOne(st.ctr)
  IN IF st.threw THEN st
     ELSE IF Falsy(name)
     THEN [st EXCEPT !.ctr = nextId, !.logs = Append(@, "warn")]
     ELSE IF p.t # "object"
     THEN [st EXCEPT !.ctr = nextId, !.threw = TRUE]
     ELSE [st EXCEPT
             !.ctr = nextId,
             !.heap = [@ EXCEPT ![p.n] =
                         [@ EXCEPT !.id = nextId,
                                   !.name = name,
                                   !.type = IF Falsy(@) THEN Str(<<"s", "t", "r", "i", "n", "g">>) ELSE @,
                                   !.nss = @ \cup {namespace}]],
             !.coll = MapSet(@, toNamespace(namespace, name), p.n),
             !.id = nextId,
             !.nadds = @ + 1,
             !.hist = [@ EXCEPT ![namespace] =
                         [clean |-> /\ @.clean
                                    /\ ~MapHas(st.coll, toNamespace(namespace, name))
                                    /\ ~InSeq(@.seq, p.n),
                          seq |-> Append(@.seq, p.n),
                          ids |-> Append(@.ids, nextId),
                          epoch |-> @.epoch]]]

addStep(st, namespace, name, prompt) ==
  LET p == IF name.t = "object" THEN name ELSE prompt
      nextId == PlusOne(st.ctr)
  IN IF st.threw THEN st
     ELSE IF Falsy(name)
     THEN [st EXCEPT !.logs = Append(@, "warn")]
     ELSE IF p.t # "object"
     THEN [st EXCEPT !.ctr = nextId, !.threw = TRUE]
     ELSE [st EXCEPT
             !.ctr = nextId,
             !.heap = [@ EXCEPT ![p.n] =
                         [@ EXCEPT !.id = nextId,
                                   !.name = name,
                                   !.type = IF Falsy(@) THEN Str(<<"s", "t", "r", "i", "n", "g">>) ELSE @,
                                   !.nss = @ \cup {namespace}]],
             !.coll = MapSet(@, toNamespace(namespace, name), p.n),
             !.id = nextId,
             !.nadds = @ + 1,
             !.hist = [@ EXCEPT ![namespace] =
                         [clean |-> /\ @.clean
                                    /\ ~MapHas(st.coll, toNamespace(namespace, name))
                                    /\ ~InSeq(@.seq, p.n),
                          seq |-> Append(@.seq, p.n),
                          ids |-> Append(@.ids, nextId),
                          epoch |-> @.epoch]]]

\* A slip: remove deletes the entries getAll sees that carry the name.
removeStepSeen(st, namespace, arg) ==
  LET found == getByIdOf(st.coll, st.heap, namespace, arg)
      name == IF arg.t = "number" THEN st.heap[found.n].name ELSE arg
  IN IF st.threw THEN st
     ELSE IF arg.t = "number" /\ found.t # "object"
     THEN [st EXCEPT !.threw = TRUE]
     ELSE [st EXCEPT
             !.coll = SelectSeq(@, LAMBDA e : ~(NamespaceTest(namespace, e.k)
                                                /\ st.heap[e.v].name = name))]

\* remove(name) and remove(id)
removeStep(st, namespace, arg) ==
  LET found == getByIdOf(st.coll, st.heap, namespace, arg)
      name == IF arg.t = "number" THEN st.heap[found.n].name ELSE arg
  IN IF st.threw THEN st
     ELSE IF arg.t = "number" /\ found.t # "object"
     THEN [st EXCEPT !.threw = TRUE]
     ELSE [st EXCEPT
             !.logs = IF name.t \in {"undefined", "null"} THEN Append(@, "log") ELSE @,
             !.coll = MapDelete(@, toNamespace(namespace, name)),
             !.hist = [@ EXCEPT ![namespace].clean =
                         @ /\ ~MapHas(st.coll, toNamespace(namespace, name))]]

RECURSIVE addEach(_, _, _)
addEach(st, namespace, prompts) ==
  IF prompts = <<>> THEN st
  ELSE addEach(addStep(st, namespace, st.heap[Head(prompts)].name, ObjRef(Head(prompts))),
               namespace, Tail(prompts))

RECURSIVE removeEach(_, _, _)
removeEach(st, namespace, all) ==
  IF all = <<>> THEN st
  ELSE removeEach(removeStep(st, namespace, st.heap[Head(all)].name), namespace, Tail(all))

St(c) == [heap |-> heap, coll |-> coll, ctr |-> c, threw |-> FALSE,
          logs |-> <<>>, id |-> Undef, nadds |-> 0, hist |-> hist]

\* The questions stored under exactly this namespace (keys `namespace:...`).
Owned(m, namespace) ==
  LET pre == namespace \o <<":">>
      hit == SelectSeq(m, LAMBDA e : Len(e.k) >= Len(pre) /\ SubSeq(e.k, 1, Len(pre)) = pre)
  IN [i \in 1..Len(hit) |-> hit[i].v]

\* A handle: its namespace and its ctr.  Kept beside them, for the claims:
\* fresh (the namespace held no question when the handle was acquired and
\* the handle was not destroyed since), nadds (the adds completed through
\* the handle while fresh) and dadds (the adds completed through it since
\* its last destroy, -1 before any destroy).
NoHandle == [live |-> FALSE, ns |-> <<>>, ctr |-> Undef, fresh |-> FALSE, nadds |-> 0,
             dadds |-> -1]

NoCall == [op |-> "none", h |-> 0, id |-> Undef, threw |-> FALSE, logs |-> <<>>]

InitName(o) ==
  CASE o = 1 -> Str(<<"x">>)
    [] o = 2 -> Str(<<"y">>)
    [] OTHER -> Undef

InitHeap == [o \in Obj |-> [id |-> Undef, name |-> InitName(o), type |-> Undef,
                            validate |-> "none", when |-> "none", nss |-> {}]]

\* What the last event on stdin did: the line or signal, how often a
\* 'line' handler of listen ran, the input handler of listen was called,
\* the screen cleared, the delimiter redrawn and a question callback
\* called, and the interfaces that had a session (a pending question or
\* the handlers of listen) when it arrived.
NoEv == [kind |-> "none", text |-> <<>>, heard |-> 0, handled |-> 0, clears |-> 0,
         delims |-> 0, answered |-> 0, active |-> {}]

\* options.completer: nothing, an array of candidates, or a function with
\* `length` declared parameters that yields comps, or the error err when
\* it reports through a callback.
NoCompleter == [kind |-> "absent", length |-> 0, comps |-> <<>>, err |-> FALSE]

\* What one run of the resolver did: the calls of the source, whether it
\* threw, whether a result [cands, line] was delivered, and that result.
\* Beside it the instance keeps asked, the line the resolver was run on.
\* For masked input: masks, the closures of the calls of mask that had a
\* prompt; maskQ, the call whose question is pending on this.rl (0 for
\* none); rlLine, the line readline has buffered itself.
NoOut == [calls |-> 0, threw |-> FALSE, delivered |-> FALSE, cands |-> <<>>, line |-> <<>>]

\* The Inquir instance: _initialized, _eventsEnabled, the process listeners
\* subscribed by toggleExceptions, the readline interfaces created so far
\* (this.rl is the last one), those that were closed, and what was logged
\* at level emergency and exit.  Kept beside them, for the claims: toggles,
\* the calls of toggleExceptions so far; exiting, set once the runtime has
\* emitted 'exit'; late, the runs of exceptionHandler that began after a
\* graceful run had ended; initToggles, the calls of toggleExceptions made
\* by init; fatalRl, the interfaces that existed at the first emergency
\* run; afterFatal, set when one of these handed a line to a handler or a
\* callback after that run.  The process around it: listens, one entry per
\* call of listen with the interface its handlers are on and its exiting
\* flag; confirm, the interfaces whose pending question is the exit
\* confirmation; paused, stdin was paused; exited, process.exit(0) ran.
\* The handler toPromise was last given, normalized, and the invocations
\* of the result.
NoNorm == [given |-> FALSE, promisified |-> FALSE, cell |-> "none",
           orig |-> [kind |-> "none", length |-> 0, ret |-> "none"], outs |-> <<>>]

InitInq == [initialized |-> FALSE, eventsEnabled |-> FALSE,
            exitListeners |-> 0, emergListeners |-> 0,
            rl |-> 0, closed |-> {}, emerg |-> 0, exits |-> 0, crashed |-> FALSE,
            toggles |-> 0, exiting |-> FALSE, late |-> 0,
            initToggles |-> 0, listens |-> <<>>, confirm |-> {}, paused |-> FALSE,
            exited |-> FALSE, fatalRl |-> 0, afterFatal |-> FALSE, ev |-> NoEv,
            completer |-> NoCompleter, asked |-> <<>>, out |-> NoOut,
            masks |-> <<>>, maskQ |-> 0, rlLine |-> <<>>, norm |-> NoNorm]

Init ==
  /\ heap = InitHeap
  /\ coll = <<>>
  /\ handles = [h \in Handle |-> NoHandle]
  /\ last = NoCall
  /\ calls = 0
  /\ hist = [namespace \in Namespaces |->
               [clean |-> TRUE, seq |-> <<>>, ids |-> <<>>, epoch |-> 0]]
  /\ inq = InitInq
  /\ sess = <<>>

CtrOk(c) == c.t = "number" => c.n < MaxCtr

\* One more call on the registry API, while the budget of calls lasts.
Call == calls < MaxCalls /\ calls' = calls + 1

\* const h = inquir.prompts(namespace) without initial prompts.
Acquire(namespace) ==
  \E h \in Handle, nv \in BOOLEAN :
    /\ Call
    /\ ~handles[h].live
    /\ \A g \in 1..(h - 1) : handles[g].live
    /\ handles' = [handles EXCEPT ![h] =
                     [live |-> TRUE, ns |-> namespace,
                      ctr |-> CtrSeed(coll, heap, namespace, nv),
                      fresh |-> Owned(coll, namespace) = <<>>, nadds |-> 0,
                      dadds |-> -1]]
    /\ last' = [NoCall EXCEPT !.op = "prompts", !.h = h]
    /\ UNCHANGED <<heap, coll, hist, inq, sess>>

\* const h = inquir.prompts(namespace, prompts): every p goes through add.
AcquireWith(namespace, prompts) ==
  \E h \in Handle, nv \in BOOLEAN :
    LET st == addEach(St(CtrSeed(coll, heap, namespace, nv)), namespace, prompts)
    IN /\ Call
       /\ ~handles[h].live
       /\ \A g \in 1..(h - 1) : handles[g].live
       /\ CtrOk(st.ctr) \/ st.ctr = Num(MaxCtr)
       /\ heap' = st.heap
       /\ coll' = st.coll
       /\ handles' = IF st.threw THEN handles
                     ELSE [handles EXCEPT ![h] =
                             [live |-> TRUE, ns |-> namespace, ctr |-> st.ctr,
                              fresh |-> Owned(coll, namespace) = <<>>,
                              nadds |-> IF Owned(coll, namespace) = <<>> THEN st.nadds ELSE 0,
                              dadds |-> -1]]
       /\ last' = [op |-> "prompts", h |-> IF st.threw THEN 0 ELSE h, id |-> st.id,
                   threw |-> st.threw, logs |-> st.logs]
       /\ hist' = st.hist
       /\ UNCHANGED <<inq, sess>>

\* h.add(name, prompt) and h.add(prompt)
Add(h, name, prompt) ==
  LET st == addStep(St(handles[h].ctr), handles[h].ns, name, prompt)
  IN /\ Call
     /\ handles[h].live
     /\ CtrOk(handles[h].ctr)
     /\ heap' = st.heap
     /\ coll' = st.coll
     /\ handles' = [handles EXCEPT ![h].ctr = st.ctr,
                                   ![h].nadds = IF handles[h].fresh THEN @ + st.nadds ELSE @,
                                   ![h].dadds = IF @ >= 0 THEN @ + st.nadds ELSE @]
     /\ last' = [op |-> "add", h |-> h, id |-> st.id,
                 threw |-> st.threw, logs |-> st.logs]
     /\ hist' = st.hist
     /\ UNCHANGED <<inq, sess>>

\* h.remove(name) and h.remove(id)
Remove(h, arg) ==
  LET st == removeStep(St(handles[h].ctr), handles[h].ns, arg)
  IN /\ Call
     /\ handles[h].live
     /\ coll' = st.coll
     /\ last' = [op |-> "remove", h |-> h, id |-> Undef,
                 threw |-> st.threw, logs |-> st.logs]
     /\ hist' = st.hist
     /\ UNCHANGED <<heap, handles, inq, sess>>

\* h.destroy()
Destroy(h) ==
  LET st == removeEach(St(handles[h].ctr), handles[h].ns, getAll(handles[h].ns))
  IN /\ Call
     /\ handles[h].live
     /\ coll' = st.coll
     /\ handles' = [handles EXCEPT ![h].ctr = Undef, ![h].fresh = FALSE, ![h].nadds = 0,
                                   ![h].dadds = 0]
     /\ last' = [op |-> "destroy", h |-> h, id |-> Undef,
                 threw |-> st.threw, logs |-> st.logs]
     /\ hist' = [st.hist EXCEPT ![handles[h].ns].clean = FALSE,
                                ![handles[h].ns].epoch = Len(st.hist[handles[h].ns].ids)]
     /\ UNCHANGED <<heap, inq, sess>>

\* The arguments callers pass.
NoNames == {Undef, Null, Str(<<>>)}
AddNames == {Str(q) : q \in Names} \cup NoNames
AddPrompts == {ObjRef(o) : o \in Obj} \cup {Undef}
RemoveArgs == {Str(q) : q \in Names} \cup {Num(i) : i \in 0..MaxCtr} \cup {Undef}

Next ==
  \/ \E namespace \in Namespaces : Acquire(namespace)
  \/ \E namespace \in Namespaces, p \in Obj : AcquireWith(namespace, <<p>>)
  \/ \E h \in Handle, name \in AddNames, prompt \in AddPrompts : Add(h, name, prompt)
  \/ \E h \in Handle, o \in Obj : Add(h, ObjRef(o), Undef)
  \/ \E h \in Handle, arg \in RemoveArgs : Remove(h, arg)
  \/ \E h \in Handle : Destroy(h)

Spec == Init /\ [][Next]_vars

(***************************************************************************)
(* The prompt engine: prompt(collection, fn).                              *)
(***************************************************************************)
\* What a caller may supply as validate: nothing, a function that accepts
\* or refuses, or (untyped callers) a promise that resolves true, resolves
\* false or rejects.  when: nothing, or a function answering true or false.
ValidateKinds == {"none", "fnTrue", "fnFalse", "promiseTrue", "promiseFalse", "promiseReject"}
WhenKinds == {"none", "true", "false"}

\* toPromise(fn): fn itself when it has a then, else promisify(fn), which
\* is a function.  TRUE when the result has a then method.
toPromiseHasThen(kind) == kind \in {"promiseTrue", "promiseFalse", "promiseReject"}

\* toggleExceptions(): subscribes once; when _eventsEnabled is already set
\* it calls removeListener with the unbound method, which was never
\* subscribed, and leaves _eventsEnabled as it is.
toggleExceptions(q) ==
  IF ~q.eventsEnabled
  THEN [q EXCEPT !.exitListeners = @ + 1, !.emergListeners = @ + 1, !.eventsEnabled = TRUE,
                 !.toggles = @ + 1]
  ELSE [q EXCEPT !.toggles = @ + 1]

\* init(): returns at once when _initialized; else toggles the process
\* listeners and creates a readline interface.
init(q) ==
  IF q.initialized THEN q
  ELSE [toggleExceptions(q) EXCEPT !.rl = @ + 1, !.initToggles = @ + 1]

\* rl.close() on interface r: the interface stops reading and emits
\* 'close'; the close handler of every listen on r sets exiting and calls
\* process.exit(0).
rlClose(q, r) ==
  LET on == {i \in 1..Len(q.listens) : q.listens[i].rl = r}
  IN IF r \in q.closed THEN q
     ELSE IF on = {} THEN [q EXCEPT !.closed = @ \cup {r}]
     ELSE LET i == CHOOSE i \in on : \A j \in on : i <= j
          IN [q EXCEPT !.closed = @ \cup {r}, !.listens[i].exiting = TRUE,
                       !.exited = TRUE]

\* exceptionHandler(state)
exceptionHandler(q, state) ==
  LET r == [q EXCEPT !.late = IF q.exits > 0 THEN @ + 1 ELSE @, !.paused = FALSE]
  IN IF state = "EMERGENCY"
     THEN [rlClose(r, q.rl) EXCEPT !.emerg = @ + 1,
                                   !.fatalRl = IF q.emerg = 0 THEN q.rl ELSE @]
     ELSE [toggleExceptions(r) EXCEPT !.exits = @ + 1]

\* An exception that nothing catches: every subscribed uncaughtException
\* handler runs; with none subscribed the process dies.
uncaught(q) ==
  IF q.emergListeners = 0 THEN [q EXCEPT !.crashed = TRUE]
  ELSE exceptionHandler(q, "EMERGENCY")

\* The process has neither died of an exception nor called process.exit.
Alive == ~inq.crashed /\ ~inq.exited

\* The runtime emits 'exit': the subscribed handler of the event runs.
exitEmitted(q) ==
  IF q.exitListeners = 0 THEN [q EXCEPT !.exiting = TRUE]
  ELSE [exceptionHandler(q, "EXIT") EXCEPT !.exiting = TRUE]

\* Does interface r hand on a line after an emergency run it saw?
Late(q, r) == q.emerg > 0 /\ r <= q.fatalRl

\* Is a question callback pending on interface r?
Asking(ss, r) == \E i \in 1..Len(ss) : ss[i].rl = r /\ ss[i].phase = "asking"

\* The lowest id among the questions stored under exactly this namespace,
\* null when it stores none.
LowestId(namespace) ==
  LET own == Owned(coll, namespace)
      ids == {heap[own[i]].id : i \in 1..Len(own)}
      nums == {id \in ids : id.t = "number"}
  IN IF nums = {} THEN Null
     ELSE CHOOSE id \in nums : \A other \in nums : id.n <= other.n

\* The executor of the promise prompt() returns: getById(0), then
\* rl.question(prompt.message, promptHandler).  Kept beside the session,
\* for the claims: lowest, the lowest id its namespace stored on invocation.
startSession(ss, q, namespace) ==
  LET first == getById(namespace, Num(0))
      base == [ns |-> namespace, rl |-> q.rl, status |-> "pending", phase |-> "idle",
               q |-> 0, presented |-> <<>>, answers |-> 0, responses |-> <<>>,
               errors |-> 0, cb |-> 0, lowest |-> LowestId(namespace)]
  IN IF first.t # "object"
     THEN [base EXCEPT !.status = "rejected"]
     ELSE IF Asking(ss, q.rl) \/ q.rl \in q.confirm
     THEN base
     ELSE [base EXCEPT !.phase = "asking", !.q = first.n,
                       !.presented = <<[o |-> first.n, id |-> heap[first.n].id]>>]

\* promptHandler(prompt, answer) up to the end of the callback: the
\* Response is built in a local, validate.then(...).catch(...) is called.
\* Without a then method that call is a TypeError.
\* A slip: the handler asks the question with the next id at once.
promptHandlerAdvance(sn, hp) ==
  LET next == getByIdOf(coll, hp, sn.ns, PlusOne(hp[sn.q].id))
  IN IF next.t = "object"
     THEN [sn EXCEPT !.answers = @ + 1, !.q = next.n,
                     !.presented = Append(@, [o |-> next.n, id |-> hp[next.n].id])]
     ELSE [sn EXCEPT !.answers = @ + 1, !.phase = "idle"]

promptHandler(sn, hp) ==
  IF toPromiseHasThen(hp[sn.q].validate)
  THEN [sn EXCEPT !.answers = @ + 1, !.phase = "validating"]
  ELSE [sn EXCEPT !.answers = @ + 1, !.phase = "threw"]

\* The callbacks given to then and catch, run when validate settles.
validateSettled(sn, hp) ==
  IF hp[sn.q].validate = "promiseReject"
  THEN [sn EXCEPT !.phase = "idle", !.errors = @ + 1]
  ELSE [sn EXCEPT !.phase = "idle"]

\* A line on stdin reaches every open interface in the order they were
\* created; an exception thrown by a callback ends the delivery.
RECURSIVE deliver(_, _, _, _)
deliver(ss, i, hp, closed) ==
  IF i > Len(ss) THEN [ss |-> ss, threw |-> FALSE]
  ELSE IF ss[i].phase = "asking" /\ ss[i].rl \notin closed
  THEN LET sn == promptHandler(ss[i], hp)
       IN IF sn.phase = "threw"
          THEN [ss |-> [ss EXCEPT ![i] = [sn EXCEPT !.phase = "idle"]], threw |-> TRUE]
          ELSE deliver([ss EXCEPT ![i] = sn], i + 1, hp, closed)
  ELSE deliver(ss, i + 1, hp, closed)

\* inquir.prompt(namespace, fn), while fewer than max sessions exist.
PromptWithin(namespace, max) ==
  LET q == init(inq)
  IN /\ Len(sess) < max
     /\ ~inq.crashed
     /\ inq' = q
     /\ sess' = Append(sess, startSession(sess, q, namespace))
     /\ UNCHANGED <<heap, coll, handles, last, calls, hist>>

Prompt(namespace) == PromptWithin(namespace, MaxSessions)

\* The user enters a line while a question is pending.
Line ==
  LET r == deliver(sess, 1, heap, inq.closed)
  IN /\ ~inq.crashed
     /\ \E i \in 1..Len(sess) : sess[i].phase = "asking" /\ sess[i].rl \notin inq.closed
     /\ sess' = r.ss
     /\ inq' = IF r.threw THEN uncaught(inq) ELSE inq
     /\ UNCHANGED <<heap, coll, handles, last, calls, hist>>

\* The validate promise of session i settles.
Settle(i) ==
  /\ i \in 1..Len(sess)
  /\ sess[i].phase = "validating"
  /\ ~inq.crashed
  /\ sess' = [sess EXCEPT ![i] = validateSettled(sess[i], heap)]
  /\ UNCHANGED <<heap, coll, handles, last, calls, hist, inq>>

\* The definitions a caller registers before prompting: the first carries
\* any validate and when, the others none.
PromptInit ==
  /\ \E v \in ValidateKinds, w \in WhenKinds :
        heap = [InitHeap EXCEPT ![1].validate = v, ![1].when = w]
  /\ coll = <<>>
  /\ handles = [h \in Handle |-> NoHandle]
  /\ last = NoCall
  /\ calls = 0
  /\ hist = [namespace \in Namespaces |->
               [clean |-> TRUE, seq |-> <<>>, ids |-> <<>>, epoch |-> 0]]
  /\ inq = InitInq
  /\ sess = <<>>

\* prompts(namespace, [p1, p2, ...]) with all definitions, or with one.
AllPrompts == [o \in Obj |-> o]

\* Before prompting, a caller may remove the first question or one by name.
SetupRemoveArgs == {Num(0)} \cup {Str(q) : q \in Names}

PromptNext ==
  \/ /\ calls < MaxSetup
     /\ \E namespace \in Namespaces, ps \in {AllPrompts} \cup {<<o>> : o \in Obj} :
          AcquireWith(namespace, ps)
  \/ /\ calls <= MaxSetup
     /\ \E h \in Handle, arg \in SetupRemoveArgs : Remove(h, arg)
  \/ \E namespace \in Namespaces : Prompt(namespace)
  \/ Line
  \/ \E i \in 1..MaxSessions : Settle(i)

PromptSpec == PromptInit /\ [][PromptNext]_vars

(***************************************************************************)
(* The signal coordinator: init() calls toggleExceptions, the runtime      *)
(* emits 'exit' once and 'uncaughtException' whenever something throws.    *)
(***************************************************************************)
\* inquir.init(), as a caller or prompt() runs it.
InitCall ==
  /\ inq.toggles < MaxToggles
  /\ ~inq.crashed
  /\ inq' = init(inq)
  /\ UNCHANGED <<heap, coll, handles, last, calls, hist, sess>>

\* process emits 'exit'; the runtime does so once.
ExitEvent ==
  /\ ~inq.exiting
  /\ ~inq.crashed
  /\ inq' = exitEmitted(inq)
  /\ UNCHANGED <<heap, coll, handles, last, calls, hist, sess>>

\* process emits 'uncaughtException'.
UncaughtEvent ==
  /\ inq.emerg < MaxEvents
  /\ ~inq.crashed
  /\ inq' = uncaught(inq)
  /\ UNCHANGED <<heap, coll, handles, last, calls, hist, sess>>

SignalNext ==
  \/ InitCall
  \/ ExitEvent
  \/ UncaughtEvent

SignalSpec == Init /\ [][SignalNext]_vars

(***************************************************************************)
(* completionHandler(completer): the resolver given to readline.           *)
(***************************************************************************)
\* c.startsWith(line)
startsWith(c, line) == Len(c) >= Len(line) /\ SubSeq(c, 1, Len(line)) = line

\* A slip: every candidate the line occurs in is kept.
filterContains(line, comps) ==
  SelectSeq(comps, LAMBDA c : \E i \in 0..Len(c) :
                       i + Len(line) <= Len(c) /\ SubSeq(c, i + 1, i + Len(line)) = line)

filter(line, comps) == SelectSeq(comps, LAMBDA c : startsWith(c, line))

\* A slip: the line is not handed back.
trivialNoLine(l) == [NoOut EXCEPT !.delivered = TRUE]

\* (l) => [[], l]
trivial(l) == [NoOut EXCEPT !.delivered = TRUE, !.line = l]

\* _completer(line)
completerSync(completer, line) ==
  [NoOut EXCEPT !.calls = IF completer.kind = "function" THEN 1 ELSE 0,
                !.delivered = TRUE,
                !.cands = filter(line, completer.comps),
                !.line = line]

\* A slip: the error is not looked at.
completerAsyncNoThrow(completer, line) ==
  IF completer.length < 2 THEN [NoOut EXCEPT !.calls = 1]
  ELSE [NoOut EXCEPT !.calls = 1, !.delivered = TRUE,
                     !.cands = filter(line, completer.comps), !.line = line]

\* _completerAsync(line, fn): a source that declares no callback never
\* calls it back.
completerAsync(completer, line) ==
  IF completer.length < 2 THEN [NoOut EXCEPT !.calls = 1]
  ELSE IF completer.err THEN [NoOut EXCEPT !.calls = 1, !.threw = TRUE]
  ELSE [NoOut EXCEPT !.calls = 1, !.delivered = TRUE,
                     !.cands = filter(line, completer.comps), !.line = line]

\* The resolver completionHandler selects, applied to a line.
completionHandler(completer, line) ==
  IF completer.kind = "absent" \/ (completer.kind = "array" /\ completer.comps = <<>>)
  THEN trivial(line)
  ELSE IF completer.kind = "array" \/ (completer.kind = "function" /\ completer.length = 1)
  THEN completerSync(completer, line)
  ELSE completerAsync(completer, line)

Words == {<<"a", "d", "d">>, <<"r", "e", "m", "o", "v", "e">>, <<"l", "i", "s", "t">>,
          <<"a">>, <<"r", "a", "d">>}

CompLists == UNION {[1..n -> Words] : n \in 0..MaxComps}

CompLines == {<<>>, <<"a">>, <<"a", "d">>, <<"a", "d", "d">>, <<"a", "d", "d", "s">>,
              <<"l">>, <<"x">>}

Completers ==
  {NoCompleter}
  \cup {[kind |-> "array", length |-> 0, comps |-> c, err |-> FALSE] : c \in CompLists}
  \cup {[kind |-> "function", length |-> n, comps |-> c, err |-> FALSE] :
          n \in 0..2, c \in CompLists}
  \cup {[kind |-> "function", length |-> 2, comps |-> <<>>, err |-> TRUE]}

CompleterInit ==
  /\ heap = InitHeap
  /\ coll = <<>>
  /\ handles = [h \in Handle |-> NoHandle]
  /\ last = NoCall
  /\ calls = 0
  /\ hist = [namespace \in Namespaces |->
               [clean |-> TRUE, seq |-> <<>>, ids |-> <<>>, epoch |-> 0]]
  /\ \E completer \in Completers : inq = [InitInq EXCEPT !.completer = completer]
  /\ sess = <<>>

\* The user asks for completions of line.
Complete(line) ==
  /\ inq' = [inq EXCEPT !.asked = <<line>>,
                        !.out = completionHandler(inq.completer, line)]
  /\ UNCHANGED <<heap, coll, handles, last, calls, hist, sess>>

CompleterNext == \E line \in CompLines : Complete(line)

CompleterSpec == CompleterInit /\ [][CompleterNext]_vars

(***************************************************************************)
(* mask(prompt, mask, fn): masked input.  Each call has its own closure:   *)
(* prompt, chars, lastKey, and the handlers inputHandler and               *)
(* keypressHandler, which are subscribed on stdin while sub is set.  Kept  *)
(* beside them: fn, the answers the callback was called with, and drawn,   *)
(* the mask characters of the last redraw (-1 before any).                 *)
(***************************************************************************)
NewMask(prompt) == [prompt |-> prompt, chars |-> <<>>, lastKey |-> "undefined",
                    sub |-> TRUE, fn |-> <<>>, drawn |-> -1]

\* The keys of a keystroke: a printable character, backspace, return, a
\* control sequence that readline does not edit the line with, or no key
\* at all when the data completes no key sequence.
Keys == {"char", "backspace", "return", "ctrl", "none"}

\* What is typed with a printable key: one character, or two pasted.
Typed == {<<"a">>, <<"b", "c">>}

\* s.slice(0, end)
slice0(s, end) ==
  LET e == IF end < 0 THEN (IF Len(s) + end < 0 THEN 0 ELSE Len(s) + end)
           ELSE (IF end > Len(s) THEN Len(s) ELSE end)
  IN SubSeq(s, 1, e)

\* keypressHandler(str, key)
keypressHandler(m, key) == IF key = "none" THEN m ELSE [m EXCEPT !.lastKey = key]

\* inputHandler(input); threw is set when lastKey.ctrl is read of null or
\* undefined.
inputHandler(m, input) ==
  LET key == IF m.lastKey \in {"undefined", "null"} THEN "" ELSE m.lastKey
  IN IF m.lastKey \in {"undefined", "null"} THEN [m |-> m, threw |-> TRUE]
     ELSE IF key = "return" \/ key = "ctrl"
     THEN [m |-> [m EXCEPT !.lastKey = "null", !.prompt = <<>>, !.chars = <<>>, !.sub = FALSE],
           threw |-> FALSE]
     ELSE IF m.prompt # <<>>
     THEN IF key = "backspace"
          THEN LET chars == slice0(m.chars, Len(m.chars) - 2)
               IN [m |-> [m EXCEPT !.lastKey = "null", !.chars = chars, !.drawn = Len(chars)],
                   threw |-> FALSE]
          ELSE [m |-> [m EXCEPT !.lastKey = "null", !.chars = @ \o input,
                                !.drawn = Len(m.chars \o input)],
                threw |-> FALSE]
     ELSE [m |-> [m EXCEPT !.lastKey = "null"], threw |-> FALSE]

\* readline takes the key first: it edits its own line and, on return,
\* hands the line to the pending question callback, which calls fn.
rlKey(q, key, input) ==
  CASE key = "char" -> [q EXCEPT !.rlLine = @ \o input]
    [] key = "backspace" -> [q EXCEPT !.rlLine = slice0(@, Len(@) - 1)]
    [] key = "return" ->
         IF q.maskQ = 0 THEN [q EXCEPT !.rlLine = <<>>]
         ELSE [q EXCEPT !.rlLine = <<>>, !.maskQ = 0,
                        !.masks[q.maskQ].fn = Append(@, q.rlLine)]
    [] OTHER -> q

\* The 'keypress' listeners of the subscribed closures.
keypressAll(ms, key) ==
  [i \in 1..Len(ms) |-> IF ms[i].sub THEN keypressHandler(ms[i], key) ELSE ms[i]]

\* The 'data' listeners of the subscribed closures i, i + 1, ...; an
\* exception ends the delivery.
RECURSIVE dataTo(_, _, _)
dataTo(ms, i, input) ==
  IF i > Len(ms) THEN [ms |-> ms, threw |-> FALSE]
  ELSE IF ~ms[i].sub THEN dataTo(ms, i + 1, input)
  ELSE LET r == inputHandler(ms[i], input)
       IN IF r.threw THEN [ms |-> ms, threw |-> TRUE]
          ELSE dataTo([ms EXCEPT ![i] = r.m], i + 1, input)

\* inquir.mask(prompt, fn): without a prompt it removes the handlers of
\* its own closure, which were never subscribed, and returns.
Mask(prompt) ==
  /\ Alive
  /\ inq.rl > 0
  /\ Len(inq.masks) < MaxMasks
  /\ inq' = IF prompt = <<>>
            THEN [inq EXCEPT !.ev = [NoEv EXCEPT !.kind = "maskIdle"]]
            ELSE [inq EXCEPT !.ev = [NoEv EXCEPT !.kind = "mask"],
                             !.masks = Append(@, NewMask(prompt)),
                             !.maskQ = IF @ = 0 THEN Len(inq.masks) + 1 ELSE @]
  /\ UNCHANGED <<heap, coll, handles, last, calls, hist, sess>>

\* A keystroke arrives on stdin.
Key(key, input) ==
  LET q == rlKey(inq, key, input)
      r == dataTo(keypressAll(q.masks, key), 1, input)
      after == [q EXCEPT !.masks = r.ms, !.ev = [NoEv EXCEPT !.kind = "key"]]
  IN /\ Alive
     /\ inq.rl > 0
     /\ inq.rl \notin inq.closed
     /\ key = "char" => Len(inq.rlLine) + Len(input) <= MaxChars
     /\ inq' = IF r.threw THEN uncaught(after) ELSE after
     /\ UNCHANGED <<heap, coll, handles, last, calls, hist, sess>>

MaskNext ==
  \/ inq.rl = 0 /\ InitCall
  \/ \E prompt \in {<<>>, <<"P">>} : Mask(prompt)
  \/ \E key \in Keys, input \in Typed : Key(key, input)

MaskSpec == Init /\ [][MaskNext]_vars

(***************************************************************************)
(* Listen mode: listen(handler), lines and interrupts on stdin.  Every     *)
(* interface created reads the same stdin, so a line or an interrupt goes  *)
(* to each open interface in the order they were created.  An interface    *)
(* hands a line to its pending question callback if it has one, else to    *)
(* its 'line' listeners.                                                   *)
(***************************************************************************)
\* The lines a user enters.
Lines == {<<>>, <<" ", " ">>, <<"c", "l", "e", "a", "r">>,
          <<" ", "C", "L", "E", "A", "R", " ">>, <<"x">>,
          <<"y">>, <<"Y", "E", "S">>, <<"y", "e">>}

\* answer.match(/^y(es)?$/i)
isYes(answer) == toLowerCase(answer) \in {<<"y">>, <<"y", "e", "s">>}

\* The listens whose handlers are on interface r.
ListensOn(q, r) == {i \in 1..Len(q.listens) : q.listens[i].rl = r}

\* The interfaces with a session: a pending question or listen's handlers.
Active(q, ss) ==
  {r \in 1..q.rl : r \notin q.closed /\ (Asking(ss, r) \/ ListensOn(q, r) # {})}

\* inquir.listen(handler)
Listen ==
  LET q == init(inq)
  IN /\ Alive
     /\ Len(inq.listens) < MaxListens
     /\ inq' = [q EXCEPT !.initialized = TRUE,
                         !.listens = Append(@, [rl |-> q.rl, exiting |-> FALSE])]
     /\ UNCHANGED <<heap, coll, handles, last, calls, hist, sess>>

\* The 'line' handler of the listen call L.
lineHandler(q, L, input) ==
  LET line == trim(input)
  IN IF toLowerCase(line) = <<"c", "l", "e", "a", "r">>
     THEN [q EXCEPT !.ev.heard = @ + 1, !.ev.clears = @ + 1, !.ev.delims = @ + 1]
     ELSE IF line # <<>> /\ ~L.exiting
     THEN [q EXCEPT !.ev.heard = @ + 1, !.ev.handled = @ + 1, !.ev.delims = @ + 1,
                    !.afterFatal = @ \/ Late(q, L.rl)]
     ELSE [q EXCEPT !.ev.heard = @ + 1, !.ev.delims = @ + 1]

RECURSIVE lineHandlers(_, _, _, _)
lineHandlers(q, i, r, input) ==
  IF i > Len(q.listens) THEN q
  ELSE lineHandlers(IF q.listens[i].rl = r THEN lineHandler(q, q.listens[i], input) ELSE q,
                    i + 1, r, input)

\* The callback of the exit confirmation asked on interface r.
confirmAnswer(q, r, answer) ==
  LET base == [q EXCEPT !.confirm = @ \ {r}, !.ev.answered = @ + 1,
                        !.afterFatal = @ \/ Late(q, r)]
  IN IF isYes(answer) THEN [base EXCEPT !.paused = TRUE]
     ELSE [base EXCEPT !.ev.delims = @ + 1]

\* A line reaches the open interfaces r, r + 1, ...; an exception thrown
\* by a callback ends the delivery.
RECURSIVE lineTo(_, _, _, _, _)
lineTo(q, ss, r, input, hp) ==
  IF r > q.rl THEN [q |-> q, ss |-> ss, threw |-> FALSE]
  ELSE IF r \in q.closed THEN lineTo(q, ss, r + 1, input, hp)
  ELSE IF Asking(ss, r)
  THEN LET i == CHOOSE i \in 1..Len(ss) : ss[i].rl = r /\ ss[i].phase = "asking"
           sn == promptHandler(ss[i], hp)
           qa == [q EXCEPT !.ev.answered = @ + 1, !.afterFatal = @ \/ Late(q, r)]
       IN IF sn.phase = "threw"
          THEN [q |-> qa, ss |-> [ss EXCEPT ![i] = sn], threw |-> TRUE]
          ELSE lineTo(qa, [ss EXCEPT ![i] = sn], r + 1, input, hp)
  ELSE IF r \in q.confirm
  THEN lineTo(confirmAnswer(q, r, input), ss, r + 1, input, hp)
  ELSE lineTo(lineHandlers(q, 1, r, input), ss, r + 1, input, hp)

\* The user enters a line.
LineIn(input) ==
  LET q == [inq EXCEPT !.ev = [NoEv EXCEPT !.kind = "line", !.text = input,
                                           !.active = Active(inq, sess)]]
      r == lineTo(q, sess, 1, input, heap)
  IN /\ Alive
     /\ ~inq.paused
     /\ \E i \in 1..inq.rl : i \notin inq.closed
     /\ sess' = r.ss
     /\ inq' = IF r.threw THEN uncaught(r.q) ELSE r.q
     /\ UNCHANGED <<heap, coll, handles, last, calls, hist>>

\* The 'SIGINT' handler listen put on this.rl: rl.question(...), which
\* asks nothing new while a question is pending on the interface.
sigintHandler(q, ss) ==
  IF Asking(ss, q.rl) \/ q.rl \in q.confirm THEN q
  ELSE [q EXCEPT !.confirm = @ \cup {q.rl}]

\* Ctrl-C reaches the open interfaces r, r + 1, ...: one with 'SIGINT'
\* listeners emits the event, one without is closed or, with other
\* versions of readline, pauses the input.
RECURSIVE sigintTo(_, _, _, _)
sigintTo(q, ss, r, closes) ==
  IF r > q.rl THEN q
  ELSE IF r \in q.closed THEN sigintTo(q, ss, r + 1, closes)
  ELSE IF ListensOn(q, r) # {} THEN sigintTo(sigintHandler(q, ss), ss, r + 1, closes)
  ELSE sigintTo(IF closes THEN rlClose(q, r) ELSE [q EXCEPT !.paused = TRUE],
                ss, r + 1, closes)

\* The user presses Ctrl-C.
Sigint(closes) ==
  LET q == [inq EXCEPT !.ev = [NoEv EXCEPT !.kind = "sigint",
                                           !.active = Active(inq, sess)]]
  IN /\ Alive
     /\ ~inq.paused
     /\ \E i \in 1..inq.rl : i \notin inq.closed
     /\ inq' = sigintTo(q, sess, 1, closes)
     /\ UNCHANGED <<heap, coll, handles, last, calls, hist, sess>>

\* The first definition has no validate or one that is a promise.
ListenInit ==
  /\ \E v \in {"none", "promiseTrue"} : heap = [InitHeap EXCEPT ![1].validate = v]
  /\ coll = <<>>
  /\ handles = [h \in Handle |-> NoHandle]
  /\ last = NoCall
  /\ calls = 0
  /\ hist = [namespace \in Namespaces |->
               [clean |-> TRUE, seq |-> <<>>, ids |-> <<>>, epoch |-> 0]]
  /\ inq = InitInq
  /\ sess = <<>>

\* The questions are registered by one call of prompts.
ListenNext ==
  \/ calls = 0 /\ AcquireWith(<<"a">>, AllPrompts)
  \/ Alive /\ PromptWithin(<<"a">>, MaxPrompts)
  \/ Listen
  \/ \E input \in Lines : LineIn(input)
  \/ \E closes \in BOOLEAN : Sigint(closes)
  \/ Alive /\ inq.emerg = 0 /\ UncaughtEvent
  \/ Alive /\ \E i \in 1..MaxPrompts : Settle(i)

ListenSpec == ListenInit /\ [][ListenNext]_vars

(***************************************************************************)
(* toPromise(fn): the normalization of a validate handler.  A handler is   *)
(* a promise or a function of length parameters; a function answers true,  *)
(* false or its argument, by return when it has fewer than two parameters  *)
(* and through the callback done(err, value) when it has two.              *)
(***************************************************************************)
Bool(b) == [t |-> "boolean", n |-> IF b THEN 1 ELSE 0, s |-> <<>>]

Handlers ==
  [kind : {"function"}, length : 0..2, ret : {"true", "false", "arg"}]
    \cup [kind : {"promise"}, length : {0}, ret : {"true", "false", "reject"}]

\* The answers a normalized handler is invoked with.
Answers == {Str(<<>>), Str(<<"x">>), Str(<<"y">>)}

\* What the handler the caller wrote answers for val.
apply(fn, val) ==
  CASE fn.ret = "true" -> Bool(TRUE)
    [] fn.ret = "false" -> Bool(FALSE)
    [] OTHER -> val

\* toPromise(fn): a promise is returned as it is; for fewer than two
\* parameters the variable fn is assigned the wrapper
\* function (val, done) { done(null, fn(val)); }, whose body reads that
\* same variable; then promisify(fn).  cell is what the variable fn holds
\* in the end; orig keeps the handler that was passed in.
toPromise(fn) ==
  IF fn.kind = "promise"
  THEN [given |-> TRUE, promisified |-> FALSE, cell |-> "original", orig |-> fn,
        outs |-> <<>>]
  ELSE IF fn.length < 2
  THEN [given |-> TRUE, promisified |-> TRUE, cell |-> "wrapper", orig |-> fn,
        outs |-> <<>>]
  ELSE [given |-> TRUE, promisified |-> TRUE, cell |-> "original", orig |-> fn,
        outs |-> <<>>]

\* The call fn(val, done) or fn(val) of what the variable fn holds, as the
\* d-th nested call: threw (an exception left the call), done and value
\* (the callback was called with null and the value), ret (the value
\* returned) and calls (how often the handler passed in was called).
\* hasDone tells whether a callback was passed.
RECURSIVE callFn(_, _, _, _)
callFn(p, val, d, hasDone) ==
  IF d > MaxStack
  THEN [threw |-> TRUE, done |-> FALSE, value |-> Undef, ret |-> Undef, calls |-> 0]
  ELSE IF p.cell = "wrapper"
  THEN LET inner == callFn(p, val, d + 1, FALSE)
       IN IF inner.threw THEN inner
          ELSE IF ~hasDone THEN [inner EXCEPT !.threw = TRUE]
          ELSE [threw |-> FALSE, done |-> TRUE, value |-> inner.ret, ret |-> Undef,
                calls |-> inner.calls]
  ELSE IF ~hasDone
  THEN [threw |-> TRUE, done |-> FALSE, value |-> Undef, ret |-> Undef, calls |-> 1]
  ELSE [threw |-> FALSE, done |-> TRUE, value |-> apply(p.orig, val), ret |-> Undef,
        calls |-> 1]

\* promisify(fn)(val): the promise rejects when fn throws, resolves with
\* the value the callback is given, and stays pending otherwise.
invoke(p, val) ==
  LET r == callFn(p, val, 1, TRUE)
  IN [val |-> val,
      status |-> IF r.threw THEN "rejected" ELSE IF r.done THEN "resolved" ELSE "pending",
      value |-> IF r.threw THEN Str(<<"R", "a", "n", "g", "e", "E", "r", "r", "o", "r">>)
                ELSE r.value,
      calls |-> r.calls]

\* const validate = toPromise(fn)
Normalize(fn) ==
  /\ ~inq.norm.given
  /\ inq' = [inq EXCEPT !.norm = toPromise(fn)]
  /\ UNCHANGED <<heap, coll, handles, last, calls, hist, sess>>

\* validate(val), for a result of toPromise that is a function.
Invoke(val) ==
  /\ inq.norm.given
  /\ inq.norm.promisified
  /\ Len(inq.norm.outs) < MaxInvokes
  /\ inq' = [inq EXCEPT !.norm.outs = Append(@, invoke(inq.norm, val))]
  /\ UNCHANGED <<heap, coll, handles, last, calls, hist, sess>>

ToPromiseNext ==
  \/ \E fn \in Handlers : Normalize(fn)
  \/ \E val \in Answers : Invoke(val)

ToPromiseSpec == Init /\ [][ToPromiseNext]_vars

(***************************************************************************)
(* Properties of the question registry.                                    *)
(***************************************************************************)
\* Did the last call complete an add through a handle?
Added == last.op \in {"add", "prompts"} /\ last.h # 0 /\ last.id # Undef

(* C1: through one handle acquired on an empty namespace and not destroyed *)
(* since, the k-th completed add (k = 0, 1, ...) assigns id k.             *)
AddAssignsKthId ==
  (Added /\ handles[last.h].fresh) => last.id = Num(handles[last.h].nadds - 1)

(* C2: no two questions stored under one namespace carry the same id.      *)
UniqueIdsInNamespace ==
  \A namespace \in Namespaces :
    LET own == Owned(coll, namespace)
    IN \A i, j \in 1..Len(own) : own[i] # own[j] => heap[own[i]].id # heap[own[j]].id

(* C3: the first add completed through a handle after its destroy()        *)
(* assigns id 0.                                                           *)
AddAfterDestroyAssignsZero ==
  (Added /\ last.op = "add" /\ handles[last.h].dadds = 1) => last.id = Num(0)

(* C8: for distinct namespaces A and B that had distinct definitions added *)
(* under one name, A.get(name) and B.get(name) are different definitions,  *)
(* and an add or remove through a handle of A leaves what B.get(name)      *)
(* returns as it was.                                                      *)
GetDiffers ==
  \A A, B \in Namespaces, x \in Names :
    ( /\ A # B
      /\ exists(A, Str(x)) /\ exists(B, Str(x))
      /\ \A o \in Obj : ~({A, B} \subseteq heap[o].nss) )
    => get(A, Str(x)) # get(B, Str(x))

GetUntouched ==
  (calls' # calls /\ last'.h # 0 /\ last'.op \in {"add", "prompts", "remove"})
  => \A B \in Namespaces \ {handles'[last'.h].ns}, x \in Names :
       LET r == get(B, Str(x))
       IN /\ getOf(coll', B, Str(x)) = r
          /\ (r.t = "object" /\ handles'[last'.h].ns \notin heap'[r.n].nss)
               => heap'[r.n] = heap[r.n]

NamespacesIsolated == [](GetDiffers) /\ [][GetUntouched]_vars

\* A handle of A has just added under a name that B holds as well.
NamespacesIsolatedWitness ==
  \E x \in Names, B \in Namespaces :
    /\ Added
    /\ handles[last.h].ns # B
    /\ exists(B, Str(x))
    /\ exists(handles[last.h].ns, Str(x))
    /\ get(B, Str(x)) # get(handles[last.h].ns, Str(x))
    /\ heap[get(handles[last.h].ns, Str(x)).n].id = last.id

(* C9: getAll() of a handle returns exactly the questions stored under its *)
(* namespace, none of another namespace.                                   *)
GetAllIsOwnNamespace ==
  \A h \in Handle :
    handles[h].live => getAll(handles[h].ns) = Owned(coll, handles[h].ns)

(* C10: when questions with distinct names were added to a namespace with  *)
(* no removal and no overwrite, getAll() returns them in the order of the  *)
(* adds, which is ascending id order.                                      *)
GetAllInAddOrder ==
  \A h \in Handle :
    LET namespace == handles[h].ns
        all == getAll(namespace)
    IN (handles[h].live /\ hist[namespace].clean /\ hist[namespace].seq # <<>>)
       => /\ all = hist[namespace].seq
          /\ \A i, j \in 1..Len(all) :
                i < j => /\ heap[all[i]].id.t = "number"
                         /\ heap[all[j]].id.t = "number"
                         /\ heap[all[i]].id.n < heap[all[j]].id.n

(***************************************************************************)
(* Properties of the prompt engine.                                        *)
(***************************************************************************)
Rejecting == {"fnFalse", "promiseFalse", "promiseReject"}
Accepting == {"none", "fnTrue", "promiseTrue"}

\* Session i got an answer and its validation is over.
Validated(i) == sess[i].answers >= 1 /\ sess[i].phase # "validating"

HasResponse(i, id) == \E r \in 1..Len(sess[i].responses) : sess[i].responses[r].id = id

(* C4: in one session the questions are presented in strictly ascending   *)
(* id order, and none is presented before the one before it has its       *)
(* Response recorded.                                                      *)
PresentedInOrder ==
  \A i \in 1..Len(sess) :
    LET p == sess[i].presented
    IN \A k \in 2..Len(p) :
         /\ p[k - 1].id.t = "number" /\ p[k].id.t = "number"
         /\ p[k - 1].id.n < p[k].id.n
         /\ HasResponse(i, p[k - 1].id)

\* A question is presented and its validation pending while the namespace
\* holds a second question.
PresentedInOrderWitness ==
  \E i \in 1..Len(sess) :
    /\ sess[i].phase = "validating"
    /\ Len(sess[i].presented) = 1
    /\ Len(Owned(coll, sess[i].ns)) >= 2

(* C5: when validate refuses an answer, one error is logged, no Response   *)
(* is recorded and the same question is presented again.                   *)
RefusedAnswerIsRetried ==
  \A i \in 1..Len(sess) :
    (Validated(i) /\ heap[sess[i].q].validate \in Rejecting)
    => /\ sess[i].errors = sess[i].answers
       /\ sess[i].responses = <<>>
       /\ Len(sess[i].presented) = sess[i].answers + 1
       /\ \A k \in 1..Len(sess[i].presented) : sess[i].presented[k].o = sess[i].q

(* C6: a question whose when handler answers false is never presented and *)
(* has no Response.                                                        *)
FalseWhenNeverPresented ==
  \A i \in 1..Len(sess) :
    \A o \in Obj :
      heap[o].when = "false"
      => /\ \A k \in 1..Len(sess[i].presented) : sess[i].presented[k].o # o
         /\ ~HasResponse(i, heap[o].id)

(* C7: once every presented question has an accepted answer, the promise  *)
(* of prompt() is resolved with one Response per presented question and    *)
(* the callback is called.  The engine has no step left to take for a      *)
(* session whose validation is over, so the result is due in that state.   *)
AllAcceptedResolves ==
  \A i \in 1..Len(sess) :
    (Validated(i) /\ heap[sess[i].q].validate \in Accepting)
    => /\ sess[i].status = "resolved"
       /\ Len(sess[i].responses) = Len(sess[i].presented)
       /\ sess[i].cb = 1

(* C11: without a destroy in between, no id is assigned twice in a        *)
(* namespace: the ids assigned by the adds under a namespace since its    *)
(* last destroy are pairwise different, whether or not the questions that *)
(* carried them were removed and whichever handle the adds went through.  *)
AssignedIdNeverReused ==
  \A namespace \in Namespaces :
    LET ids == hist[namespace].ids
    IN \A i, j \in (hist[namespace].epoch + 1)..Len(ids) : i < j => ids[i] # ids[j]

(***************************************************************************)
(* lastId() on stores that hold ids of two digits.  The stores are those   *)
(* one handle on namespace a builds from nothing by adding the first       *)
(* definition repeatedly under one name, then the second repeatedly under  *)
(* the other name: each add assigns the next id to the definition it is    *)
(* given, so the store ends with two questions of any two different ids.   *)
(***************************************************************************)
RECURSIVE addTimes(_, _, _, _, _)
addTimes(st, namespace, name, prompt, k) ==
  IF k = 0 THEN st
  ELSE addTimes(addStep(st, namespace, name, prompt), namespace, name, prompt, k - 1)

EmptySt == [heap |-> InitHeap, coll |-> <<>>, ctr |-> Num(-1), threw |-> FALSE,
            logs |-> <<>>, id |-> Undef, nadds |-> 0,
            hist |-> [namespace \in Namespaces |->
                        [clean |-> TRUE, seq |-> <<>>, ids |-> <<>>, epoch |-> 0]]]

\* The store in which definition `first` has id lo and definition `then` id hi.
StoreWithIds(first, then, lo, hi) ==
  addTimes(addTimes(EmptySt, <<"a">>, InitName(first), ObjRef(first), lo + 1),
           <<"a">>, InitName(then), ObjRef(then), hi - lo)

LastIdInit ==
  \E first \in 1..2, lo \in 0..MaxId, hi \in 0..MaxId :
    LET st == StoreWithIds(first, 3 - first, lo, hi)
    IN /\ lo < hi
       /\ heap = st.heap
       /\ coll = st.coll
       /\ handles = [h \in Handle |->
                       IF h = 1
                       THEN [live |-> TRUE, ns |-> <<"a">>, ctr |-> st.ctr, fresh |-> TRUE,
                             nadds |-> st.nadds, dadds |-> -1]
                       ELSE NoHandle]
       /\ last = [op |-> "add", h |-> 1, id |-> st.id, threw |-> FALSE, logs |-> <<>>]
       /\ calls = 0
       /\ hist = st.hist
       /\ inq = InitInq
       /\ sess = <<>>

\* h.lastId()
LastId(h) ==
  \E nv \in BOOLEAN :
    /\ handles[h].live
    /\ last' = [op |-> "lastId", h |-> h, id |-> lastId(handles[h].ns, nv),
                threw |-> FALSE, logs |-> <<>>]
    /\ UNCHANGED <<heap, coll, handles, calls, hist, inq, sess>>

LastIdNext ==
  \/ \E h \in Handle : LastId(h)
  \/ \E h \in Handle, name \in Names : Remove(h, Str(name))

LastIdSpec == LastIdInit /\ [][LastIdNext]_vars

\* The greatest of a non-empty sequence of numbers.
NumMax(ids) ==
  LET i == CHOOSE i \in 1..Len(ids) : \A j \in 1..Len(ids) : ids[j].n <= ids[i].n
  IN ids[i]

(* C12: lastId() returns the numerically greatest id among the questions  *)
(* stored in the namespace, also when ids of 10 and above are stored, and  *)
(* null when the namespace holds no question.                              *)
LastIdIsGreatest ==
  last.op = "lastId"
  => LET own == Owned(coll, handles[last.h].ns)
         ids == [i \in 1..Len(own) |-> heap[own[i]].id]
     IN IF own = <<>> THEN last.id = Null ELSE last.id = NumMax(ids)

\* The entries of namespace stored under exactly the key namespace:name.
EntriesOf(namespace, name) ==
  SelectSeq(coll, LAMBDA e : e.k = toNamespace(namespace, name))

OneQuestionPerName ==
  \A namespace \in Namespaces, name \in Names : Len(EntriesOf(namespace, Str(name))) <= 1

\* An add under a name the namespace already holds stores the definition
\* given and assigns an id above every id assigned in the namespace so far.
ReAddGetsGreaterId ==
  \A h \in Handle, name \in Names, o \in Obj :
    LET namespace == handles[h].ns
        ids == hist[namespace].ids
    IN (exists(namespace, Str(name)) /\ Add(h, Str(name), ObjRef(o)))
       => /\ ~last'.threw
          /\ getOf(coll', namespace, Str(name)) = ObjRef(o)
          /\ heap'[o].id = last'.id
          /\ last'.id.t = "number"
          /\ \A k \in 1..Len(ids) : ids[k].t = "number" => ids[k].n < last'.id.n

(* C13: a namespace holds at most one question per name in every          *)
(* reachable state, and re-adding an existing name replaces the stored     *)
(* definition and gives it an id strictly greater than every id assigned   *)
(* before in that namespace.                                               *)
ReAddReplacesWithGreaterId == [](OneQuestionPerName) /\ [][ReAddGetsGreaterId]_vars

\* The add steps whose name argument is undefined, null or empty.
AddNoNameStep ==
  \A h \in Handle, name \in NoNames, prompt \in AddPrompts :
    Add(h, name, prompt)
    => /\ ~last'.threw
       /\ last'.logs = <<"warn">>
       /\ last'.h = h
       /\ coll' = coll
       /\ heap' = heap
       /\ \A g \in Handle : handles'[g].ctr = handles[g].ctr

(* C14: add with a name that is undefined, null or empty does not throw,  *)
(* logs one warning, leaves the stored questions of every namespace and    *)
(* every id counter as they were and returns the handle it was called on.  *)
AddWithoutNameChangesNothing == [][AddNoNameStep]_vars

\* Such an add has just returned on a store that holds a question.
AddWithoutNameWitness ==
  /\ last.op = "add"
  /\ last.logs = <<"warn">>
  /\ ~last.threw
  /\ coll # <<>>
  /\ handles[last.h].ctr.t = "number"

\* The add steps given a definition d alone, d.name being a string.
BareAddStep ==
  \A h \in Handle, d \in Obj :
    LET namespace == handles[h].ns
        name == heap[d].name
    IN (name.t = "string" /\ Add(h, ObjRef(d), Undef))
       => /\ MapHas(coll', toNamespace(namespace, name))
          /\ getOf(coll', namespace, name) = ObjRef(d)
          /\ heap'[d].name = name

(* C15: add called with a definition d alone stores d under the name      *)
(* d.name: afterwards exists(d.name) is true, get(d.name) returns d and    *)
(* the name field of the stored question is the string d.name.             *)
BareAddStoresUnderOwnName == [][BareAddStep]_vars

\* Does a question stored under the namespace carry the id?
Carries(namespace, id) ==
  \E i \in 1..Len(Owned(coll, namespace)) : heap[Owned(coll, namespace)[i]].id = Num(id)

\* The remove steps given an id that no question of the namespace carries.
RemoveAbsentIdStep ==
  \A h \in Handle, id \in 0..MaxCtr :
    (~Carries(handles[h].ns, id) /\ Remove(h, Num(id)))
    => /\ ~last'.threw
       /\ last'.logs # <<>>
       /\ last'.h = h
       /\ coll' = coll
       /\ heap' = heap

(* C16: remove(id) for an id that no stored question of the namespace     *)
(* carries does not throw: it logs a message, leaves every stored question *)
(* as it was and returns the handle.                                       *)
RemoveAbsentIdChangesNothing == [][RemoveAbsentIdStep]_vars

(* C17: after destroy() on a handle for namespace N, N holds no question: *)
(* no key of N is left in the store, so exists(name) is false for every    *)
(* name added to N before, getAll() returns an empty sequence and lastId() *)
(* returns null, whatever the other namespaces hold.                       *)
DestroyEmptiesNamespace ==
  last.op = "destroy"
  => LET N == handles[last.h].ns
     IN /\ ~last.threw
        /\ Owned(coll, N) = <<>>
        /\ \A name \in Names : ~exists(N, Str(name))
        /\ getAll(N) = <<>>
        /\ \A nanIsValue \in BOOLEAN : lastId(N, nanIsValue) = Null

(* C18: on invocation prompt(namespace) first presents the stored         *)
(* question with the lowest id of the namespace, whenever the namespace    *)
(* stores a question, also when its question of id 0 was removed before.   *)
PromptStartsAtLowestId ==
  \A i \in 1..Len(sess) :
    sess[i].lowest # Null
    => /\ sess[i].status # "rejected"
       /\ sess[i].presented # <<>>
       /\ sess[i].presented[1].id = sess[i].lowest

(***************************************************************************)
(* Properties of the signal coordinator.                                   *)
(***************************************************************************)
\* Is a coordinator handler subscribed to a process event?
Subscribed == inq.exitListeners > 0 \/ inq.emergListeners > 0

(* C19: the coordinator alternates between disarmed and armed on each     *)
(* toggle: after an odd number of toggles it is armed with its handlers    *)
(* subscribed, after an even number (a toggle in the armed state having    *)
(* unsubscribed them) it is disarmed and no handler of it is subscribed.   *)
ToggleAlternates ==
  IF inq.toggles % 2 = 1
  THEN inq.eventsEnabled /\ inq.exitListeners = 1 /\ inq.emergListeners = 1
  ELSE ~inq.eventsEnabled /\ ~Subscribed

(* C20: a graceful exit delivered while the coordinator is armed disarms  *)
(* it first, so that no handler of the coordinator, graceful or emergency, *)
(* runs for a later process event and the exit notice is logged once at    *)
(* most.                                                                   *)
GracefulExitRunsOnce ==
  /\ inq.exits <= 1
  /\ inq.late = 0
  /\ inq.exits = 1 => ~Subscribed

(***************************************************************************)
(* Properties of listen mode and of sessions under signals.                *)
(***************************************************************************)
(* C21: once a fatal uncaught error was handled (the emergency message    *)
(* logged), a line interface is closed and none of the interfaces that     *)
(* existed then hands a later input line to an input handler or to a       *)
(* question callback.                                                      *)
FatalErrorStopsInput ==
  inq.emerg > 0 => (inq.closed # {} /\ ~inq.afterFatal)

(* C22: over any calls of prompt() and listen() the initialization of the *)
(* line interface toggles the signal coordinator exactly once, at the      *)
(* first initialization: once a call was made the count is one, and it     *)
(* never exceeds one.                                                      *)
InitTogglesOnce ==
  /\ inq.initToggles <= 1
  /\ (sess # <<>> \/ inq.listens # <<>>) => inq.initToggles = 1

\* The lines that are the word clear in some letter case, blanks around it
\* or not, and the lines that are empty or blank.
ClearLines == {<<"c", "l", "e", "a", "r">>, <<" ", "C", "L", "E", "A", "R", " ">>}
BlankLines == {<<>>, <<" ", " ">>}

YesLines == {<<"y">>, <<"Y", "E", "S">>}

\* An interrupt puts an exit confirmation on every interface that has a
\* session and leaves the interface reading; the answer to a pending
\* confirmation ends the process if it is affirmative, else redraws the
\* delimiter and changes no session.
InterruptConfirmStep ==
  /\ \A closes \in BOOLEAN :
       Sigint(closes)
       => \A r \in Active(inq, sess) : r \in inq'.confirm /\ r \notin inq'.closed
  /\ \A input \in Lines :
       (LineIn(input) /\ inq.confirm # {})
       => IF input \in YesLines
          THEN inq'.paused \/ inq'.exited
          ELSE /\ sess' = sess
               /\ inq'.confirm = {}
               /\ inq'.ev.delims > 0
               /\ ~inq'.paused /\ ~inq'.exited

(* C30: an interrupt during an active session, of listen or of prompt,     *)
(* substitutes a yes/no exit confirmation; the answer y or yes in any      *)
(* letter case terminates the process, any other answer redraws the        *)
(* prompt and the session continues with no response lost or added.        *)
InterruptAsksConfirmation == [][InterruptConfirmStep]_vars

(* C31: when the line interface is closed while a session of prompt has a  *)
(* question pending, the promise of that prompt call is rejected: it does  *)
(* not stay pending and is not resolved.                                   *)
ClosedInterfaceRejects ==
  \A i \in 1..Len(sess) :
    (sess[i].phase = "asking" /\ sess[i].rl \in inq.closed) => sess[i].status = "rejected"

(* C32: across the calls of prompt and listen on one instance the line     *)
(* interface is created at most once; every session and every listen uses  *)
(* that one interface.                                                     *)
InterfaceCreatedOnce ==
  /\ inq.rl <= 1
  /\ \A i \in 1..Len(sess) : sess[i].rl = 1
  /\ \A i \in 1..Len(inq.listens) : inq.listens[i].rl = 1

\* The entries of the store kept under exactly this namespace, with keys.
StoredUnder(m, namespace) ==
  LET pre == namespace \o <<":">>
  IN SelectSeq(m, LAMBDA e : Len(e.k) >= Len(pre) /\ SubSeq(e.k, 1, Len(pre)) = pre)

\* Does the step leave the entries and the definitions of every namespace
\* other than A as they were?
OthersUntouched(A) ==
  \A B \in Namespaces \ {A} :
    /\ StoredUnder(coll', B) = StoredUnder(coll, B)
    /\ \A i \in 1..Len(StoredUnder(coll, B)) :
         heap'[StoredUnder(coll, B)[i].v] = heap[StoredUnder(coll, B)[i].v]

\* The steps that are a call of remove or of destroy through a handle.
RemoveDestroyFrameStep ==
  (calls' # calls /\ last'.op \in {"remove", "destroy"})
  => OthersUntouched(handles[last'.h].ns)

LineForwardedOnce ==
  ( /\ inq.ev.kind = "line"
    /\ inq.ev.heard > 0
    /\ inq.ev.text \notin (ClearLines \cup BlankLines) )
  => inq.ev.handled = 1

(***************************************************************************)
(* Properties of the completion resolver.                                  *)
(***************************************************************************)
\* Is line a prefix of the candidate c?
IsPrefix(line, c) == \E k \in 0..Len(c) : k = Len(line) /\ \A i \in 1..k : c[i] = line[i]

\* The candidates of comps that line is a prefix of, in the order of comps.
Matching(line, comps) == SelectSeq(comps, LAMBDA c : IsPrefix(line, c))

\* The resolver was run on a line.
Completed == inq.asked # <<>>

(* C23: for a source that is a non-empty array, or a function declaring   *)
(* the line as its only parameter, the resolver returns for every line     *)
(* exactly the candidates that start with the line, in the order of the    *)
(* source, together with the line itself.                                  *)
SyncResolverFiltersByPrefix ==
  (/\ Completed
   /\ \/ inq.completer.kind = "array" /\ inq.completer.comps # <<>>
      \/ inq.completer.kind = "function" /\ inq.completer.length = 1)
  => /\ inq.out.delivered
     /\ ~inq.out.threw
     /\ inq.out.cands = Matching(inq.asked[1], inq.completer.comps)
     /\ inq.out.line = inq.asked[1]

\* The source ["add", "remove", "list"] was asked for "a" and gave ["add"].
SyncResolverWitness ==
  /\ Completed
  /\ inq.completer.kind = "array"
  /\ inq.completer.comps = <<<<"a", "d", "d">>, <<"r", "e", "m", "o", "v", "e">>,
                             <<"l", "i", "s", "t">>>>
  /\ inq.asked = <<<<"a">>>>
  /\ inq.out.cands = <<<<"a", "d", "d">>>>

(* C24: for a source that is absent or an empty array the resolver        *)
(* returns, for every line, no candidate together with the line unchanged, *)
(* and calls no source.                                                    *)
TrivialResolverEchoesLine ==
  (/\ Completed
   /\ \/ inq.completer.kind = "absent"
      \/ inq.completer.kind = "array" /\ inq.completer.comps = <<>>)
  => /\ inq.out.delivered
     /\ inq.out.cands = <<>>
     /\ inq.out.line = inq.asked[1]
     /\ inq.out.calls = 0

\* An empty array was asked for a line that is not empty.
TrivialResolverWitness ==
  /\ Completed
  /\ inq.completer.kind = "array"
  /\ inq.completer.comps = <<>>
  /\ inq.asked[1] # <<>>
  /\ inq.out.line = inq.asked[1]

(* C25: for a source that is a function declaring a result callback: when *)
(* it calls back with an error the error is thrown on and no result is     *)
(* delivered; when it calls back with candidates the delivered result is   *)
(* the one the synchronous resolver returns for that line and candidates.  *)
AsyncResolverMatchesSync ==
  (Completed /\ inq.completer.kind = "function" /\ inq.completer.length = 2)
  => IF inq.completer.err
     THEN inq.out.threw /\ ~inq.out.delivered
     ELSE LET sync == completerSync([inq.completer EXCEPT !.length = 1], inq.asked[1])
          IN /\ inq.out.delivered
             /\ ~inq.out.threw
             /\ inq.out.cands = sync.cands
             /\ inq.out.line = sync.line
             /\ inq.out.cands = Matching(inq.asked[1], inq.completer.comps)

\* A callback source was asked and some of its candidates were left out.
AsyncResolverWitness ==
  /\ Completed
  /\ inq.completer.kind = "function"
  /\ inq.completer.length = 2
  /\ inq.out.delivered
  /\ inq.out.cands # <<>>
  /\ inq.out.cands # inq.completer.comps

(***************************************************************************)
(* Properties of masked input.                                             *)
(***************************************************************************)
\* The keystrokes that are no terminator, for a closure that is masking.
MaskedKeyStep ==
  \A key \in {"char", "backspace"}, input \in Typed, i \in 1..Len(inq.masks) :
    LET m == inq.masks[i]
        n == inq'.masks[i]
    IN (m.sub /\ m.prompt # <<>> /\ Key(key, input))
       => /\ n.drawn = Len(n.chars)
          /\ key = "char" => n.chars = m.chars \o input
          /\ (key = "backspace" /\ m.chars # <<>>) => Len(n.chars) = Len(m.chars) - 1

(* C26: while masked input is active, after every keystroke that is no    *)
(* terminator the line is redrawn as the prompt followed by one mask       *)
(* character per buffered character; a printable keystroke appends what    *)
(* was typed to the buffer and a backspace takes exactly one character     *)
(* off a buffer that is not empty.                                         *)
MaskRedrawsOnePerChar == [][MaskedKeyStep]_vars

\* The terminator keystrokes, and the keystrokes after a terminator.
TerminatorStep ==
  \A key \in Keys, input \in Typed, i \in 1..Len(inq.masks) :
    LET m == inq.masks[i]
        n == inq'.masks[i]
    IN /\ (m.sub /\ key \in {"return", "ctrl"} /\ Key(key, input))
          => /\ ~n.sub
             /\ n.chars = <<>>
             /\ n.fn = Append(m.fn, m.chars)
       /\ (~m.sub /\ Key(key, input))
          => /\ n.chars = m.chars
             /\ n.drawn = m.drawn
             /\ n.fn = m.fn

(* C27: on a terminator keystroke (return or a control sequence) the data *)
(* and keypress handlers are unsubscribed, the buffer is cleared and the   *)
(* callback is called exactly once, with the characters buffered before    *)
(* the terminator; no later keystroke changes the buffer, redraws the line *)
(* or calls the callback again.                                            *)
TerminatorEndsMask == [][TerminatorStep]_vars

\* The calls of mask without a prompt.
MaskIdleStep ==
  Mask(<<>>)
  => /\ \A i \in 1..Len(inq'.masks) : ~inq'.masks[i].sub
     /\ inq'.maskQ = inq.maskQ
     /\ Len(inq'.masks) = Len(inq.masks)

(* C28: mask called without a prompt asks no question, and when it has    *)
(* returned no data or keypress handler of masked input is subscribed on   *)
(* stdin, also when an earlier call of mask subscribed its handlers and    *)
(* has seen no terminator yet.                                             *)
MaskWithoutPromptUnsubscribes == [][MaskIdleStep]_vars

\* The keystrokes that reach a subscribed raw-data handler, with or
\* without a keypress event before the data.
MaskDataStep ==
  \A key \in Keys, input \in Typed :
    (Key(key, input) /\ \E i \in 1..Len(inq.masks) : inq.masks[i].sub)
    => /\ inq'.emerg = inq.emerg
       /\ ~inq'.crashed

(* C35: while masked input is active the raw-data handler completes        *)
(* without fault for every order of data and keypress events, also for a   *)
(* data event before any keypress event and for two data events with no    *)
(* keypress event between them.                                            *)
MaskDataNeverFaults == [][MaskDataStep]_vars

(***************************************************************************)
(* Properties of the normalization of handlers.                            *)
(***************************************************************************)
(* C36: normalizing a synchronous handler of fewer than two parameters     *)
(* yields an asynchronous handler whose invocation terminates and delivers *)
(* the value the original handler returns for the same argument, calling   *)
(* the original handler exactly once.                                      *)
NormalizedDeliversOriginal ==
  (inq.norm.given /\ inq.norm.orig.kind = "function" /\ inq.norm.orig.length < 2)
  => /\ inq.norm.promisified
     /\ \A i \in 1..Len(inq.norm.outs) :
          LET out == inq.norm.outs[i]
          IN /\ out.status = "resolved"
             /\ out.value = apply(inq.norm.orig, out.val)
             /\ out.calls = 1

====
